---- MODULE Spec2Model ----
(***************************************************************************)
(* Schedule coordination agent of the site-manager mail assistant          *)
(* (src/src/agents/coordinationAgent.js).                                  *)
(*                                                                         *)
(* The model follows one run of analyzeProjectTasks over the tasks table   *)
(* of one project: the task query, the dependency graph, and the three     *)
(* detectors (trade overlaps, missing dependencies, schedule conflicts).   *)
(*                                                                         *)
(* Dates.  planned_start_date / planned_end_date are DATE columns          *)
(* (src/src/database/index.js:133-134).  A row carries the calendar day    *)
(* as a day number counted from January 1st of the schedule year (day 0);  *)
(* `new Date(x)` is modelled by DateMs, the millisecond value of the       *)
(* midnight of that day, every day being 24 h long.  Date comparisons and  *)
(* subtractions of the code are done on these millisecond values, and the  *)
(* day counts by the code's Math.ceil(ms / (1000*60*60*24)).               *)
(*                                                                         *)
(* depends_on is an INTEGER[] column; a NULL array and an empty array      *)
(* take the same branches everywhere in the agent (`depends_on && ...`),   *)
(* so both are modelled by the empty sequence.                             *)
(***************************************************************************)
EXTENDS Integers, Sequences, FiniteSets, TLC

(***************************************************************************)
(* Bounds of the model                                                     *)
(***************************************************************************)
MaxTasks == 2
MaxDay == 1
MaxTrade == 2
MaxDeps == 1
MaxProjects == 2
MaxRuns == 2
MaxEmails == 2
MaxFollowUpRuns == 2

(***************************************************************************)
(* Values                                                                  *)
(***************************************************************************)
\* SQL NULL / JavaScript null of a nullable column
NULL == 0 - 1

\* 1000 * 60 * 60 * 24, the divisor of every day count
MsPerDay == 86400000

\* the look-back window of detectMissingDependencies
LookbackDays == 5

\* the trades inserted by initDatabase, in insertion order (SERIAL ids 1..)
DefaultTrades ==
  << "Terrassement", "Gros oeuvre", "Plomberie", "Electricite", "Menuiserie",
     "Peinture", "Couverture", "Facade", "Chauffage", "Climatisation" >>

\* tr.name of the LEFT JOIN: NULL when the task has no trade
TradeName(trade_id) ==
  IF trade_id = NULL THEN "NULL" ELSE DefaultTrades[trade_id]

\* JavaScript truthiness of a nullable id or date value
Truthy(x) == x # NULL

\* new Date(d) as its millisecond value
DateMs(d) == d * MsPerDay

\* Math.ceil(a / b) for b > 0
CeilDiv(a, b) == 0 - ((0 - a) \div b)

\* a row of the tasks query (columns the agent reads)
Row(id, trade, start, end, deps, status) ==
  [ id |-> id, trade_id |-> trade, trade_name |-> TradeName(trade),
    planned_start_date |-> start, planned_end_date |-> end,
    status |-> status, depends_on |-> deps ]

\* January k of the schedule year as a day number
Jan(k) == k - 1


(***************************************************************************)
(* detectTradeOverlaps (coordinationAgent.js:109-169)                      *)
(***************************************************************************)
\* the filter without its test of the trade
Eligible_AnyTrade(task) ==
  /\ Truthy(task.planned_start_date)
  /\ Truthy(task.planned_end_date)

\* line 116: the filter of the grouping loop
Eligible(task) ==
  /\ Truthy(task.trade_id)
  /\ Truthy(task.planned_start_date)
  /\ Truthy(task.planned_end_date)

\* line 126: Array.from(tasksByTrade.keys()), the trades in insertion order
TradeKeys(tasks) ==
  LET K[n \in 0..Len(tasks)] ==
        IF n = 0 THEN << >>
        ELSE IF /\ Eligible(tasks[n])
                /\ \A k \in 1..Len(K[n - 1]) : K[n - 1][k] # tasks[n].trade_id
             THEN Append(K[n - 1], tasks[n].trade_id)
             ELSE K[n - 1]
  IN  K[Len(tasks)]

\* lines 130-131: tasksByTrade.get(trade), the group in push order
TradeTasks(tasks, trade) ==
  SelectSeq(tasks, LAMBDA t : Eligible(t) /\ t.trade_id = trade)

\* the inner trade loop started at j = i
FirstOtherTrade_Same(i) == i

\* line 129: the first index j of the inner trade loop (0-based i + 1)
FirstOtherTrade(i) == i + 1

\* the overlap test with strict comparisons
RangesOverlap_Strict(startDate1, endDate1, startDate2, endDate2) ==
  (startDate1 < endDate2) /\ (endDate1 > startDate2)

\* the overlap test with || in place of &&
RangesOverlap_Either(startDate1, endDate1, startDate2, endDate2) ==
  (startDate1 <= endDate2) \/ (endDate1 >= startDate2)

\* line 141: the overlap test on the four Date values
RangesOverlap(startDate1, endDate1, startDate2, endDate2) ==
  (startDate1 <= endDate2) /\ (endDate1 >= startDate2)

\* the window start taken from the first task
StartOverlap_First(startDate1, startDate2) == startDate1

\* line 145
StartOverlap(startDate1, startDate2) ==
  IF startDate1 > startDate2 THEN startDate1 ELSE startDate2

\* the window end taken from the first task
EndOverlap_First(endDate1, endDate2) == endDate1

\* line 146
EndOverlap(endDate1, endDate2) ==
  IF endDate1 < endDate2 THEN endDate1 ELSE endDate2

\* the day count with both end days counted
DaysOverlap_Inclusive(startOverlap, endOverlap) ==
  CeilDiv(endOverlap - startOverlap, MsPerDay) + 1

\* line 159: the day count logged for a finding
DaysOverlap(startOverlap, endOverlap) ==
  CeilDiv(endOverlap - startOverlap, MsPerDay)

\* lines 136-148 and 158-159: the body of the innermost loop; the finding
\* carries the day count the reporting loop computes for it
CompareTasks(task1, task2) ==
  LET startDate1 == DateMs(task1.planned_start_date)
      endDate1   == DateMs(task1.planned_end_date)
      startDate2 == DateMs(task2.planned_start_date)
      endDate2   == DateMs(task2.planned_end_date)
      startOverlap == StartOverlap(startDate1, startDate2)
      endOverlap   == EndOverlap(endDate1, endDate2)
  IN  IF RangesOverlap(startDate1, endDate1, startDate2, endDate2)
      THEN << [ task1 |-> task1, task2 |-> task2,
                startOverlap |-> startOverlap, endOverlap |-> endOverlap,
                daysOverlap |-> DaysOverlap(startOverlap, endOverlap) ] >>
      ELSE << >>

\* lines 133-150: every task of one group against every task of the other
CompareTrades(tradeTasks1, tradeTasks2) ==
  LET Inner(task1) ==
        LET B[b \in 0..Len(tradeTasks2)] ==
              IF b = 0 THEN << >>
              ELSE B[b - 1] \o CompareTasks(task1, tradeTasks2[b])
        IN  B[Len(tradeTasks2)]
      A[a \in 0..Len(tradeTasks1)] ==
        IF a = 0 THEN << >> ELSE A[a - 1] \o Inner(tradeTasks1[a])
  IN  A[Len(tradeTasks1)]

\* lines 113-152: the overlaps array
detectTradeOverlaps(tasks) ==
  LET trades == TradeKeys(tasks)
      n == Len(trades)
      Others(i) ==
        LET J[j \in 0..n] ==
              IF j < FirstOtherTrade(i) THEN << >>
              ELSE J[j - 1] \o CompareTrades(TradeTasks(tasks, trades[i]),
                                             TradeTasks(tasks, trades[j]))
        IN  J[n]
      I[i \in 0..n] == IF i = 0 THEN << >> ELSE I[i - 1] \o Others(i)
  IN  I[n]

(***************************************************************************)
(* The dependency graph of analyzeProjectTasks (lines 70-89)               *)
(***************************************************************************)
\* the test of declared dependencies answering no for every task
HasDependencies_Never(task) == FALSE

\* lines 82, 194, 256: task.depends_on && task.depends_on.length > 0
HasDependencies(task) == Len(task.depends_on) > 0

\* lines 75-76: taskMap, identity -> row
BuildTaskMap(tasks) ==
  [ id \in { tasks[n].id : n \in 1..Len(tasks) } |->
      (CHOOSE r \in { tasks[n] : n \in 1..Len(tasks) } :
         /\ r.id = id
         /\ \E n \in 1..Len(tasks) :
              /\ tasks[n] = r
              /\ \A m \in (n + 1)..Len(tasks) : tasks[m].id # id) ]

\* the graph with every edge stored at the declaring task
BuildDependencyGraph_Forward(tasks) ==
  LET ids == { tasks[n].id : n \in 1..Len(tasks) }
      G[n \in 0..Len(tasks)] ==
        IF n = 0 THEN [ id \in ids |-> << >> ]
        ELSE [ G[n - 1] EXCEPT ![tasks[n].id] =
                 SelectSeq(tasks[n].depends_on, LAMBDA d : d \in ids) ]
  IN  G[Len(tasks)]

\* lines 75-89: dependencyGraph, identity -> identities of the tasks that
\* declare it, in push order
BuildDependencyGraph(tasks) ==
  LET ids == { tasks[n].id : n \in 1..Len(tasks) }
      \* the pushes of one task (lines 83-87) onto graph g
      PushAll(g, task) ==
        LET P[k \in 0..Len(task.depends_on)] ==
              IF k = 0 THEN g
              ELSE IF task.depends_on[k] \in ids
                   THEN [ P[k - 1] EXCEPT ![task.depends_on[k]] =
                            Append(@, task.id) ]
                   ELSE P[k - 1]
        IN  P[Len(task.depends_on)]
      G[n \in 0..Len(tasks)] ==
        IF n = 0 THEN [ id \in ids |-> << >> ]
        ELSE IF HasDependencies(tasks[n]) THEN PushAll(G[n - 1], tasks[n])
             ELSE G[n - 1]
  IN  G[Len(tasks)]

(***************************************************************************)
(* detectScheduleConflicts (lines 249-292)                                 *)
(***************************************************************************)
\* the conflict test with <= in place of <
StartsBeforeEnd_Inclusive(taskStartDate, dependencyEndDate) ==
  taskStartDate <= dependencyEndDate

\* line 267: the conflict test on the two Date values
StartsBeforeEnd(taskStartDate, dependencyEndDate) ==
  taskStartDate < dependencyEndDate

\* the day count with the operands of the subtraction exchanged
DaysConflict_Swapped(taskStartDate, dependencyEndDate) ==
  CeilDiv(taskStartDate - dependencyEndDate, MsPerDay)

\* line 271
DaysConflict(taskStartDate, dependencyEndDate) ==
  CeilDiv(dependencyEndDate - taskStartDate, MsPerDay)

\* lines 261-274: one declared dependency of one task
CheckDependency(task, dependencyId, taskMap) ==
  IF dependencyId \in DOMAIN taskMap
     /\ Truthy(taskMap[dependencyId].planned_end_date)
  THEN LET dependency == taskMap[dependencyId]
           taskStartDate == DateMs(task.planned_start_date)
           dependencyEndDate == DateMs(dependency.planned_end_date)
       IN  IF StartsBeforeEnd(taskStartDate, dependencyEndDate)
           THEN << [ task |-> task, dependency |-> dependency,
                     daysConflict |->
                       DaysConflict(taskStartDate, dependencyEndDate) ] >>
           ELSE << >>
  ELSE << >>

\* the tasks that declare, directly or through other tasks, a dependency
\* on themselves
CyclicTasks(tasks) ==
  LET ids == { tasks[a].id : a \in 1..Len(tasks) }
      Declares(x, y) ==
        \E a \in 1..Len(tasks) :
          /\ tasks[a].id = x
          /\ \E k \in 1..Len(tasks[a].depends_on) : tasks[a].depends_on[k] = y
      \* Reach[n]: the pairs joined by a chain of 1 to n declared dependencies
      Reach[n \in 1..(Len(tasks) + 1)] ==
        IF n = 1 THEN { e \in ids \X ids : Declares(e[1], e[2]) }
        ELSE Reach[n - 1] \cup
             { e \in ids \X ids :
                 \E z \in ids : << e[1], z >> \in Reach[n - 1] /\ Declares(z, e[2]) }
  IN  { x \in ids : << x, x >> \in Reach[Len(tasks) + 1] }

\* the detector that refuses a cyclic dependency set
detectScheduleConflicts_RejectCycles(tasks, taskMap) ==
  LET OfTask(task) ==
        IF HasDependencies(task) /\ Truthy(task.planned_start_date)
        THEN LET D[k \in 0..Len(task.depends_on)] ==
                   IF k = 0 THEN << >>
                   ELSE D[k - 1] \o
                        CheckDependency(task, task.depends_on[k], taskMap)
             IN  D[Len(task.depends_on)]
        ELSE << >>
      T[n \in 0..Len(tasks)] ==
        IF n = 0 THEN << >> ELSE T[n - 1] \o OfTask(tasks[n])
  IN  IF CyclicTasks(tasks) # {} THEN << >> ELSE T[Len(tasks)]

\* the detector without the `dependency &&` guard of line 263: reading
\* planned_end_date of an unresolved dependency throws, and the run ends
\* in the catch of analyzeProjectTasks with no conflict reported
detectScheduleConflicts_Unguarded(tasks, taskMap) ==
  LET Throws ==
        \E n \in 1..Len(tasks) :
          /\ HasDependencies(tasks[n]) /\ Truthy(tasks[n].planned_start_date)
          /\ \E k \in 1..Len(tasks[n].depends_on) :
               tasks[n].depends_on[k] \notin DOMAIN taskMap
      OfTask(task) ==
        IF HasDependencies(task) /\ Truthy(task.planned_start_date)
        THEN LET D[k \in 0..Len(task.depends_on)] ==
                   IF k = 0 THEN << >>
                   ELSE D[k - 1] \o
                        CheckDependency(task, task.depends_on[k], taskMap)
             IN  D[Len(task.depends_on)]
        ELSE << >>
      T[n \in 0..Len(tasks)] ==
        IF n = 0 THEN << >> ELSE T[n - 1] \o OfTask(tasks[n])
  IN  IF Throws THEN << >> ELSE T[Len(tasks)]

\* lines 252-277: the conflicts array
detectScheduleConflicts(tasks, taskMap) ==
  LET OfTask(task) ==
        IF HasDependencies(task) /\ Truthy(task.planned_start_date)
        THEN LET D[k \in 0..Len(task.depends_on)] ==
                   IF k = 0 THEN << >>
                   ELSE D[k - 1] \o
                        CheckDependency(task, task.depends_on[k], taskMap)
             IN  D[Len(task.depends_on)]
        ELSE << >>
      T[n \in 0..Len(tasks)] ==
        IF n = 0 THEN << >> ELSE T[n - 1] \o OfTask(tasks[n])
  IN  T[Len(tasks)]

(***************************************************************************)
(* detectMissingDependencies (lines 174-244)                               *)
(***************************************************************************)
\* lines 180-184: the comparator handed to Array.prototype.sort
CompareTasksByStart(a, b) ==
  IF ~Truthy(a.planned_start_date) THEN 1
  ELSE IF ~Truthy(b.planned_start_date) THEN 0 - 1
  ELSE DateMs(a.planned_start_date) - DateMs(b.planned_start_date)

\* line 180: [...tasks].sort(comparator) as the engine sorts an array of
\* fewer than 64 elements: the leading run is counted (and reversed when it
\* is strictly descending), then every later element is placed by binary
\* insertion with the comparator
SortTasks(tasks) ==
  LET n == Len(tasks)
      descending == CompareTasksByStart(tasks[2], tasks[1]) < 0
      \* length of the leading run
      RunLength ==
        LET R[k \in 2..n] ==
              IF k = 2 THEN 2
              ELSE IF R[k - 1] < k - 1 THEN R[k - 1]
              ELSE LET order == CompareTasksByStart(tasks[k], tasks[k - 1])
                   IN  IF (descending /\ order >= 0) \/ (~descending /\ order < 0)
                       THEN k - 1 ELSE k
        IN  R[n]
      run == RunLength
      afterRun ==
        IF descending
        THEN [ k \in 1..n |-> IF k <= run THEN tasks[run + 1 - k] ELSE tasks[k] ]
        ELSE tasks
      \* the insertion point of pivot in arr[1..start-1]
      Place(arr, start) ==
        LET pivot == arr[start]
            \* S[c] is <<left, right>> (0-based, right exclusive) after c
            \* rounds of the bisection
            S[c \in 0..start] ==
              IF c = 0 THEN << 0, start - 1 >>
              ELSE LET left == S[c - 1][1]
                       right == S[c - 1][2]
                       mid == left + ((right - left) \div 2)
                   IN  IF left >= right THEN S[c - 1]
                       ELSE IF CompareTasksByStart(pivot, arr[mid + 1]) < 0
                            THEN << left, mid >>
                            ELSE << mid + 1, right >>
        IN  S[start][1] + 1
      Insert(arr, start) ==
        LET at == Place(arr, start)
        IN  [ k \in 1..n |->
                IF k < at \/ k > start THEN arr[k]
                ELSE IF k = at THEN arr[start]
                ELSE arr[k - 1] ]
      B[k \in run..n] == IF k = run THEN afterRun ELSE Insert(B[k - 1], k)
  IN  IF n < 2 THEN tasks ELSE B[n]

\* line 206
DaysBetween(currentTaskDate, prevTaskEndDate) ==
  CeilDiv(currentTaskDate - prevTaskEndDate, MsPerDay)

\* the test without the same-day case
IsPotentialDependency_Positive(currentTask, prevTask, daysBetween) ==
  /\ daysBetween > 0
  /\ daysBetween <= LookbackDays
  /\ \A k \in 1..Len(currentTask.depends_on) :
       currentTask.depends_on[k] # prevTask.id

\* lines 210-211: the test that makes prevTask a potential dependency
IsPotentialDependency(currentTask, prevTask, daysBetween) ==
  /\ daysBetween >= 0
  /\ daysBetween <= LookbackDays
  /\ \A k \in 1..Len(currentTask.depends_on) :
       currentTask.depends_on[k] # prevTask.id

\* lines 197-217: potentialDependencies of sortedTasks[i]
PotentialDependencies(sortedTasks, i) ==
  LET currentTask == sortedTasks[i]
      currentTaskDate == DateMs(currentTask.planned_start_date)
      Of(prevTask) ==
        IF ~Truthy(prevTask.planned_end_date) THEN << >>
        ELSE LET daysBetween ==
                   DaysBetween(currentTaskDate, DateMs(prevTask.planned_end_date))
             IN  IF IsPotentialDependency(currentTask, prevTask, daysBetween)
                 THEN << [ task |-> prevTask, daysBetween |-> daysBetween ] >>
                 ELSE << >>
      P[j \in 0..(i - 1)] ==
        IF j = 0 THEN << >> ELSE P[j - 1] \o Of(sortedTasks[j])
  IN  P[i - 1]

\* the detector that also reports tasks with declared dependencies
detectMissingDependencies_ReportsDeclared(tasks) ==
  LET sortedTasks == SortTasks(tasks)
      OfTask(i) ==
        IF ~Truthy(sortedTasks[i].planned_start_date) THEN << >>
        ELSE LET potentialDependencies == PotentialDependencies(sortedTasks, i)
             IN  IF Len(potentialDependencies) > 0
                 THEN << [ task |-> sortedTasks[i],
                           potentialDependencies |-> potentialDependencies,
                           type |-> "missing_dependency" ] >>
                 ELSE << >>
      T[i \in 0..Len(sortedTasks)] ==
        IF i = 0 THEN << >> ELSE T[i - 1] \o OfTask(i)
  IN  T[Len(sortedTasks)]

\* lines 177-227: the potentialIssues array
detectMissingDependencies(tasks) ==
  LET sortedTasks == SortTasks(tasks)
      OfTask(i) ==
        IF ~Truthy(sortedTasks[i].planned_start_date) THEN << >>
        ELSE LET potentialDependencies == PotentialDependencies(sortedTasks, i)
             IN  IF Len(potentialDependencies) > 0
                    /\ ~HasDependencies(sortedTasks[i])
                 THEN << [ task |-> sortedTasks[i],
                           potentialDependencies |-> potentialDependencies,
                           type |-> "missing_dependency" ] >>
                 ELSE << >>
      T[i \in 0..Len(sortedTasks)] ==
        IF i = 0 THEN << >> ELSE T[i - 1] \o OfTask(i)
  IN  T[Len(sortedTasks)]

(***************************************************************************)
(* The tasks table of the analysed project                                 *)
(***************************************************************************)
\* values of a nullable DATE column
Dates == {NULL} \cup (0..MaxDay)

\* values of tasks.trade_id (REFERENCES trades(id), nullable)
Trades == {NULL} \cup (1..MaxTrade)

\* values of tasks.depends_on of a task that declares dependencies, in a
\* project of n tasks; n + 1 is an identity that belongs to no task
DependencyLists(n) ==
  UNION { [1..k -> 1..(n + 1)] : k \in 1..MaxDeps }

\* Identities are opaque (SERIAL) and the agent only tests them for
\* equality, so of the tables that differ by a renaming of the identities
\* the one whose rows are in this order is kept
RowRank(x) ==
  ((x[1] + 1) * (MaxDay + 2) + (x[2] + 1)) * (MaxDay + 2) + (x[3] + 1)

\* a table whose tasks differ in trade and planned range; f[i] is
\* <<trade_id, planned_start_date, planned_end_date>> of task i
TradeTable(n, f) ==
  [ i \in 1..n |-> Row(i, f[i][1], f[i][2], f[i][3], << >>, "planned") ]

IsTradeTable(table) ==
  \E n \in 0..MaxTasks : \E f \in [1..n -> Trades \X Dates \X Dates] :
    /\ \A i \in 1..(n - 1) : RowRank(f[i]) <= RowRank(f[i + 1])
    /\ table = TradeTable(n, f)

\* a table whose tasks differ in planned range and whose last task declares
\* the dependencies d: on other tasks, on itself, on a task that does not
\* exist; f[i] is <<planned_start_date, planned_end_date>> of task i
DependencyTable(n, f, d) ==
  [ i \in 1..n |->
      Row(i, NULL, f[i][1], f[i][2], IF i = n THEN d ELSE << >>, "planned") ]

IsDependencyTable(table) ==
  \E n \in 1..MaxTasks : \E f \in [1..n -> Dates \X Dates] :
    \E d \in DependencyLists(n) : table = DependencyTable(n, f, d)

\* spec.md section 8, "Scenario": Terrassement, Plomberie, Electricite
ScenarioTable ==
  << Row(1, 1, Jan(1), Jan(10), << >>, "planned"),
     Row(2, 3, Jan(8), Jan(20), << >>, "planned"),
     Row(3, 4, Jan(21), Jan(25), << 2 >>, "planned") >>

\* spec.md section 8, "Overlap boundary" and "No false overlap"
BoundaryTable ==
  << Row(1, 1, Jan(1), Jan(5), << >>, "planned"),
     Row(2, 3, Jan(5), Jan(10), << >>, "planned") >>

DisjointTable ==
  << Row(1, 1, Jan(1), Jan(4), << >>, "planned"),
     Row(2, 3, Jan(5), Jan(10), << >>, "planned") >>

\* spec.md section 8, "Conflict detection"
ConflictTable ==
  << Row(1, NULL, Jan(1), Jan(15), << >>, "planned"),
     Row(2, NULL, Jan(10), Jan(18), << 1 >>, "planned") >>

NoConflictTable ==
  << Row(1, NULL, Jan(1), Jan(15), << >>, "planned"),
     Row(2, NULL, Jan(20), Jan(22), << 1 >>, "planned") >>

\* a task that starts on the day its dependency ends
SameDayTable ==
  << Row(1, NULL, Jan(1), Jan(15), << >>, "planned"),
     Row(2, NULL, Jan(15), Jan(18), << 1 >>, "planned") >>

\* a project with two tasks of one trade, a task without a trade and a
\* task without a planned end among tasks of other trades
MixedTable ==
  << Row(1, 1, Jan(1), Jan(10), << >>, "planned"),
     Row(2, 1, Jan(5), Jan(12), << >>, "planned"),
     Row(3, 3, Jan(8), Jan(20), << >>, "planned"),
     Row(4, NULL, Jan(6), Jan(9), << >>, "planned"),
     Row(5, 4, Jan(9), NULL, << >>, "planned") >>

\* a task that declares an identity of no task (5), a task without a
\* planned end (2) and a task that ends after it starts (1), followed by
\* another task in conflict with task 1
DanglingTable ==
  << Row(1, NULL, Jan(1), Jan(15), << >>, "planned"),
     Row(2, NULL, Jan(3), NULL, << >>, "planned"),
     Row(3, NULL, Jan(10), Jan(20), << 5, 2, 1 >>, "planned"),
     Row(4, NULL, Jan(12), Jan(22), << 1 >>, "planned") >>

\* spec.md section 8, "Missing-dependency window": a task starting Jan 10
\* after tasks that end 7 days, 4 days and 0 days before it and one that
\* ends after it
MissingTable ==
  << Row(1, NULL, Jan(1), Jan(3), << >>, "planned"),
     Row(2, NULL, Jan(2), Jan(6), << >>, "planned"),
     Row(3, NULL, Jan(4), Jan(10), << >>, "planned"),
     Row(4, NULL, Jan(5), Jan(12), << >>, "planned"),
     Row(5, NULL, Jan(10), Jan(14), << >>, "planned") >>

\* predecessors that end 6 days and 5 days before a task starts
WindowEdgeTable ==
  << Row(1, NULL, Jan(1), Jan(4), << >>, "planned"),
     Row(2, NULL, Jan(2), Jan(5), << >>, "planned"),
     Row(3, NULL, Jan(10), Jan(12), << >>, "planned") >>

\* a task with a declared dependency and an undeclared close predecessor,
\* followed by a task without dependencies
DeclaredTable ==
  << Row(1, NULL, Jan(1), Jan(6), << >>, "planned"),
     Row(2, NULL, Jan(2), Jan(8), << >>, "planned"),
     Row(3, NULL, Jan(10), Jan(14), << 1 >>, "planned"),
     Row(4, NULL, Jan(11), Jan(15), << >>, "planned") >>

\* two tasks that depend on each other and one that depends on itself
CycleTable ==
  << Row(1, NULL, Jan(1), Jan(10), << 2 >>, "planned"),
     Row(2, NULL, Jan(5), Jan(8), << 1 >>, "planned"),
     Row(3, NULL, Jan(12), Jan(14), << 3 >>, "planned") >>

\* a task that starts before the end of its declared dependency and has an
\* undeclared close predecessor, which is also close to the dependency
BothTable ==
  << Row(1, NULL, Jan(1), Jan(4), << >>, "planned"),
     Row(2, NULL, Jan(5), Jan(12), << >>, "planned"),
     Row(3, NULL, Jan(8), Jan(10), << 2 >>, "planned") >>

\* a task without planned start that ends 4 days before another starts
UnstartedTable ==
  << Row(1, NULL, NULL, Jan(6), << >>, "planned"),
     Row(2, NULL, Jan(10), Jan(14), << >>, "planned") >>

ExampleTables ==
  { ScenarioTable, BoundaryTable, DisjointTable,
    ConflictTable, NoConflictTable, SameDayTable, MixedTable,
    DanglingTable, MissingTable, WindowEdgeTable, DeclaredTable,
    UnstartedTable, CycleTable, BothTable }

\* ORDER BY t.planned_start_date ASC NULLS LAST (lines 62, 319): a's place
\* is not after b's
OrderedBefore(a, b) ==
  \/ ~Truthy(b.planned_start_date)
  \/ /\ Truthy(a.planned_start_date)
     /\ a.planned_start_date <= b.planned_start_date

\* lines 55-63: the row orders the query may return; rows of equal planned
\* start come in any order
QueryResults(table) ==
  LET n == Len(table)
  IN  { [ k \in 1..n |-> table[p[k]] ] :
          p \in { q \in [1..n -> 1..n] :
                    /\ \A i, j \in 1..n : i # j => q[i] # q[j]
                    /\ \A i \in 1..(n - 1) :
                         OrderedBefore(table[q[i]], table[q[i + 1]]) } }

(***************************************************************************)
(* One run of analyzeProjectTasks (lines 50-104)                           *)
(***************************************************************************)
VARIABLES
  tasksTable,       \* the rows of table tasks for the project, by identity
  pc,               \* the position of the run in analyzeProjectTasks
  rows,             \* tasks.rows, the result of the query
  taskMap,          \* identity -> row
  dependencyGraph,  \* identity -> identities of the dependent tasks
  overlaps,         \* findings of detectTradeOverlaps
  potentialIssues,  \* findings of detectMissingDependencies
  conflicts,        \* findings of detectScheduleConflicts
  projectRows,      \* projectResult.rows of generateCoordinationReport
  failure,          \* the query of generateCoordinationReport that was rejected
  report,           \* what generateCoordinationReport returned
  response,         \* HTTP status of the coordination-report route
  activeProjects,   \* ids of the active projects, as the project query lists them
  runs,             \* the calls of analyzeProjectSchedule, in the order they began
  timerArmed,       \* the interval timer of start() exists
  followUps,        \* rows of table emails that the follow-up agent reads
  followUpRun,      \* the position of checkForPendingFollowUps
  projectsTable,    \* rows of table projects, as the email processor sees it
  storedEmails,     \* rows of table emails written by the email processor
  processing        \* the calls of _processEmail for the fetched batch

reportVars == << projectRows, failure, report, response >>

schedulerVars == << activeProjects, runs, timerArmed >>

analysisVars ==
  << tasksTable, pc, rows, taskMap, dependencyGraph,
     overlaps, potentialIssues, conflicts >>

vars ==
  << tasksTable, pc, rows, taskMap, dependencyGraph,
     overlaps, potentialIssues, conflicts,
     projectRows, failure, report, response,
     activeProjects, runs, timerArmed,
     followUps, followUpRun, projectsTable, storedEmails, processing >>

followUpVars == << followUps, followUpRun >>

mailVars == << projectsTable, storedEmails, processing >>

otherVars == << followUpVars, mailVars >>

\* the follow-up agent has not been started
FollowUpIdle ==
  /\ followUps = << >>
  /\ followUpRun = [ pc |-> "idle", queue |-> << >>, runsDone |-> 0 ]

\* no batch of emails has been fetched
MailIdle ==
  /\ projectsTable = << >>
  /\ storedEmails = << >>
  /\ processing = << >>

\* start() has not been called
SchedulerIdle ==
  /\ activeProjects = << >>
  /\ runs = << >>
  /\ timerArmed = FALSE

Init ==
  /\ \/ IsTradeTable(tasksTable)
     \/ IsDependencyTable(tasksTable)
     \/ tasksTable \in ExampleTables
  /\ pc = "query"
  /\ rows = << >>
  /\ taskMap = << >>
  /\ dependencyGraph = << >>
  /\ overlaps = << >>
  /\ potentialIssues = << >>
  /\ conflicts = << >>
  /\ projectRows = << >>
  /\ failure = "none"
  /\ report = << >>
  /\ response = 0
  /\ SchedulerIdle
  /\ FollowUpIdle
  /\ MailIdle

\* lines 55-68: the task query; an empty project ends the run
QueryTasks ==
  /\ pc = "query"
  /\ rows' \in QueryResults(tasksTable)
  /\ pc' = IF Len(rows') = 0 THEN "done" ELSE "graph"
  /\ UNCHANGED << tasksTable, taskMap, dependencyGraph,
                  overlaps, potentialIssues, conflicts >>
  /\ UNCHANGED reportVars
  /\ UNCHANGED schedulerVars
  /\ UNCHANGED otherVars

\* the construction that records each dependent in the depends_on array of
\* the task it depends on
TasksAfterGraph_PushIntoTask(tasks) ==
  [ k \in 1..Len(tasks) |->
      [ tasks[k] EXCEPT !.depends_on =
          @ \o BuildDependencyGraph(tasks)[tasks[k].id] ] ]

\* lines 76-89: tasks.rows after the construction; the two forEach only
\* read the tasks, the pushes of line 85 go to the arrays of dependencyGraph
TasksAfterGraph(tasks) == tasks

\* lines 70-89
BuildGraph ==
  /\ pc = "graph"
  /\ taskMap' = BuildTaskMap(rows)
  /\ dependencyGraph' = BuildDependencyGraph(rows)
  /\ rows' = TasksAfterGraph(rows)
  /\ pc' = "overlaps"
  /\ UNCHANGED << tasksTable, overlaps, potentialIssues, conflicts >>
  /\ UNCHANGED reportVars
  /\ UNCHANGED schedulerVars
  /\ UNCHANGED otherVars

\* line 92
DetectTradeOverlaps ==
  /\ pc = "overlaps"
  /\ overlaps' = detectTradeOverlaps(rows)
  /\ pc' = "missing"
  /\ UNCHANGED << tasksTable, rows, taskMap, dependencyGraph,
                  potentialIssues, conflicts >>
  /\ UNCHANGED reportVars
  /\ UNCHANGED schedulerVars
  /\ UNCHANGED otherVars

\* line 95
DetectMissingDependencies ==
  /\ pc = "missing"
  /\ potentialIssues' = detectMissingDependencies(rows)
  /\ pc' = "conflicts"
  /\ UNCHANGED << tasksTable, rows, taskMap, dependencyGraph,
                  overlaps, conflicts >>
  /\ UNCHANGED reportVars
  /\ UNCHANGED schedulerVars
  /\ UNCHANGED otherVars

\* lines 98-100
DetectScheduleConflicts ==
  /\ pc = "conflicts"
  /\ conflicts' = detectScheduleConflicts(rows, taskMap)
  /\ pc' = "done"
  /\ UNCHANGED << tasksTable, rows, taskMap, dependencyGraph,
                  overlaps, potentialIssues >>
  /\ UNCHANGED reportVars
  /\ UNCHANGED schedulerVars
  /\ UNCHANGED otherVars

Next ==
  \/ QueryTasks
  \/ BuildGraph
  \/ DetectTradeOverlaps
  \/ DetectMissingDependencies
  \/ DetectScheduleConflicts

Spec == Init /\ [][Next]_vars

(***************************************************************************)
(* generateCoordinationReport (coordinationAgent.js:297-361) and its route *)
(* GET /projects/:id/coordination-report (routes/api.js:175-200)           *)
(***************************************************************************)
\* the statuses the report counts (lines 350-353)
ClosedStatuses == { "completed", "in_progress", "planned", "delayed" }

\* values of tasks.status, a VARCHAR(50) without CHECK: the four statuses
\* the report counts and one it does not
StatusList ==
  << "planned", "in_progress", "completed", "delayed", "cancelled" >>

\* line 324: the label of the tasks without trade
UnassignedLabel == "Sans corps de metier"

\* JavaScript truthiness of tr.name
TruthyName(name) == name # "NULL" /\ name # ""

\* the grouping that never falls back on the label
GroupKey_NoLabel(task) == task.trade_name

\* line 324: task.trade_name || 'Sans corps de metier'
GroupKey(task) ==
  IF TruthyName(task.trade_name) THEN task.trade_name ELSE UnassignedLabel

\* toLocaleDateString of a day of the schedule's January
LocaleDateString(d) == "1/" \o ToString(d + 1)

\* lines 330-340: the entry pushed for a task (columns of Row)
DisplayTask(task) ==
  [ id |-> task.id,
    plannedStart |-> IF Truthy(task.planned_start_date)
                     THEN LocaleDateString(task.planned_start_date)
                     ELSE "Non defini",
    plannedEnd |-> IF Truthy(task.planned_end_date)
                   THEN LocaleDateString(task.planned_end_date)
                   ELSE "Non defini",
    status |-> task.status ]

\* lines 322-342: tasksByTrade after the first k rows
RECURSIVE GroupByTrade(_, _)
GroupByTrade(taskRows, k) ==
  IF k = 0 THEN << >>
  ELSE LET before == GroupByTrade(taskRows, k - 1)
           tradeName == GroupKey(taskRows[k])
       IN  [ key \in (DOMAIN before) \cup {tradeName} |->
               IF key = tradeName
               THEN IF key \in DOMAIN before
                    THEN Append(before[key], DisplayTask(taskRows[k]))
                    ELSE << DisplayTask(taskRows[k]) >>
               ELSE before[key] ]

\* a count that stops at one
CountStatus_AtMostOne(taskRows, status) ==
  IF \E k \in 1..Len(taskRows) : taskRows[k].status = status THEN 1 ELSE 0

\* lines 350-353: tasks.rows.filter(t => t.status === status).length
CountStatus(taskRows, status) ==
  Cardinality({ k \in 1..Len(taskRows) : taskRows[k].status = status })

\* lines 345-354 (generatedDate, the day of the call, is left out)
BuildReport(projectName, taskRows) ==
  [ projectName |-> projectName,
    tasksByTrade |-> GroupByTrade(taskRows, Len(taskRows)),
    totalTasks |-> Len(taskRows),
    completedTasks |-> CountStatus(taskRows, "completed"),
    inProgressTasks |-> CountStatus(taskRows, "in_progress"),
    plannedTasks |-> CountStatus(taskRows, "planned"),
    delayedTasks |-> CountStatus(taskRows, "delayed") ]

\* the value null of lines 306 and 359; a returned report r is << r >>
NoReport == << >>

\* the report that takes a project without tasks for an absent one
generateCoordinationReport_EmptyIsAbsent(projectResult, taskRows, rejected) ==
  IF rejected # "none" \/ Len(projectResult) = 0 \/ Len(taskRows) = 0
  THEN NoReport
  ELSE << BuildReport(projectResult[1].name, taskRows) >>

\* lines 300-360: the returned value, given the rows of the two queries and
\* the query the store rejects ("none", "project", "tasks")
generateCoordinationReport(projectResult, taskRows, rejected) ==
  IF rejected = "project" THEN NoReport
  ELSE IF Len(projectResult) = 0 THEN NoReport
  ELSE IF rejected = "tasks" THEN NoReport
  ELSE << BuildReport(projectResult[1].name, taskRows) >>

\* HTTP statuses of the route: res.status(404) and the default of res.json
NotFound == 404
Ok == 200

\* the queries the store may reject
Failures == { "none", "project", "tasks" }

\* a table whose tasks differ in trade, status and planned start; f[i] is
\* <<trade_id, index in StatusList, planned_start_date>> of task i
ReportTable(n, f) ==
  [ i \in 1..n |->
      Row(i, f[i][1], f[i][3], f[i][3], << >>, StatusList[f[i][2]]) ]

\* of the tables that differ by a renaming of the identities, the one whose
\* rows are in this order is kept
ReportRank(x) ==
  ((x[1] + 1) * (Len(StatusList) + 1) + x[2]) * (MaxDay + 2) + (x[3] + 1)

IsReportTable(table) ==
  \E n \in 0..MaxTasks :
    \E f \in [1..n -> Trades \X (1..Len(StatusList)) \X Dates] :
      /\ \A i \in 1..(n - 1) : ReportRank(f[i]) <= ReportRank(f[i + 1])
      /\ table = ReportTable(n, f)

\* the project exists or not; tasks.project_id REFERENCES projects(id), so
\* an unknown project has no tasks
InitReport ==
  /\ projectRows \in { << >>, << [ name |-> "Chantier" ] >> }
  /\ IF Len(projectRows) = 0 THEN tasksTable = << >>
                              ELSE IsReportTable(tasksTable)
  /\ pc = "request"
  /\ rows = << >>
  /\ taskMap = << >>
  /\ dependencyGraph = << >>
  /\ overlaps = << >>
  /\ potentialIssues = << >>
  /\ conflicts = << >>
  /\ failure = "none"
  /\ report = NoReport
  /\ response = 0
  /\ SchedulerIdle
  /\ FollowUpIdle
  /\ MailIdle

\* api.js:179 and coordinationAgent.js:297-361: the call of the agent; the
\* task query is reached only for a project that was found
GenerateCoordinationReport ==
  /\ pc = "request"
  /\ \E rejected \in Failures : \E taskRows \in QueryResults(tasksTable) :
       /\ rejected = "tasks" => Len(projectRows) > 0
       /\ failure' = rejected
       /\ rows' = IF rejected = "none" /\ Len(projectRows) > 0
                  THEN taskRows ELSE << >>
       /\ report' = generateCoordinationReport(projectRows, taskRows, rejected)
  /\ pc' = "respond"
  /\ UNCHANGED << tasksTable, taskMap, dependencyGraph, overlaps,
                  potentialIssues, conflicts, projectRows, response >>
  /\ UNCHANGED schedulerVars
  /\ UNCHANGED otherVars

\* api.js:181-191: 404 for a falsy report, the report otherwise; the catch
\* of api.js:192 is never entered because the agent catches every error
Respond ==
  /\ pc = "respond"
  /\ response' = IF Len(report) = 0 THEN NotFound ELSE Ok
  /\ pc' = "responded"
  /\ UNCHANGED << tasksTable, rows, taskMap, dependencyGraph, overlaps,
                  potentialIssues, conflicts, projectRows, failure, report >>
  /\ UNCHANGED schedulerVars
  /\ UNCHANGED otherVars

NextReport ==
  \/ GenerateCoordinationReport
  \/ Respond

SpecReport == InitReport /\ [][NextReport]_vars

(***************************************************************************)
(* The agent as a whole: a scheduled analysis run or a report request      *)
(***************************************************************************)
InitAgent == Init \/ InitReport

NextAgent == Next \/ NextReport

SpecAgent == InitAgent /\ [][NextAgent]_vars

(***************************************************************************)
(* start and analyzeProjectSchedule (coordinationAgent.js:15-45)           *)
(*                                                                         *)
(* A run is one call of analyzeProjectSchedule.  It is suspended at the    *)
(* project query (line 35) and, for each project in turn, inside           *)
(* analyzeProjectTasks (line 40), whose task query is its one wait for     *)
(* the store.  The timer callback of line 22 is a task of the event loop   *)
(* and can run whenever the runs are suspended.                            *)
(***************************************************************************)
\* how a call of analyzeProjectTasks ends: normally, with its task query
\* rejected, or with a detector throwing; the last two are caught at 101
Outcomes == { "ok", "queryFails", "detectorThrows" }

\* line 30: a run that has issued its project query
NewRun ==
  [ pc |-> "projects", queue |-> << >>, current |-> 0,
    analysed |-> << >>, failed |-> {}, queryFailed |-> FALSE ]

\* the loop that ends at the first project whose analysis fails
RemainingProjects_StopOnFailure(outcome, queue) ==
  IF outcome = "ok" THEN queue ELSE << >>

\* lines 39-41 and 101-103: the projects still to analyse after a call of
\* analyzeProjectTasks has ended
RemainingProjects(outcome, queue) == queue

\* lines 39-41: the run enters analyzeProjectTasks for the next project of
\* the queue, or ends
EnterNext(run, queue) ==
  IF Len(queue) = 0
  THEN [ run EXCEPT !.pc = "done", !.queue = << >>, !.current = 0 ]
  ELSE [ run EXCEPT !.pc = "tasks", !.queue = Tail(queue),
                    !.current = Head(queue) ]

\* the orders in which the project query may list n active projects
ProjectLists ==
  UNION { { q \in [1..n -> 1..n] : \A i, j \in 1..n : i # j => q[i] # q[j] } :
          n \in 0..MaxProjects }

InitScheduler ==
  /\ activeProjects \in ProjectLists
  /\ runs = << >>
  /\ timerArmed = FALSE
  /\ tasksTable = << >>
  /\ pc = "idle"
  /\ rows = << >>
  /\ taskMap = << >>
  /\ dependencyGraph = << >>
  /\ overlaps = << >>
  /\ potentialIssues = << >>
  /\ conflicts = << >>
  /\ projectRows = << >>
  /\ failure = "none"
  /\ report = << >>
  /\ response = 0
  /\ FollowUpIdle
  /\ MailIdle

\* lines 15-25: the immediate run and the timer
Start ==
  /\ ~timerArmed
  /\ runs = << >>
  /\ runs' = << NewRun >>
  /\ timerArmed' = TRUE
  /\ UNCHANGED << analysisVars, reportVars, activeProjects >>
  /\ UNCHANGED otherVars

\* lines 22-24: the timer fires and begins a run, whatever the earlier
\* runs are doing
Tick ==
  /\ timerArmed
  /\ Len(runs) < MaxRuns
  /\ runs' = Append(runs, NewRun)
  /\ UNCHANGED << analysisVars, reportVars, activeProjects, timerArmed >>
  /\ UNCHANGED otherVars

\* lines 35-43: the project query resolves, or is rejected and the error
\* is caught at line 42
QueryProjects(r) ==
  /\ runs[r].pc = "projects"
  /\ \E ok \in BOOLEAN :
       runs' = [ runs EXCEPT ![r] =
                   IF ok THEN EnterNext(runs[r], activeProjects)
                   ELSE [ runs[r] EXCEPT !.pc = "done", !.queryFailed = TRUE ] ]
  /\ UNCHANGED << analysisVars, reportVars, activeProjects, timerArmed >>
  /\ UNCHANGED otherVars

\* lines 40 and 50-104: the call of analyzeProjectTasks for the current
\* project returns and the loop goes on
AnalyzeProjectTasks(r) ==
  /\ runs[r].pc = "tasks"
  /\ \E outcome \in Outcomes :
       runs' = [ runs EXCEPT ![r] =
                   EnterNext(
                     [ runs[r] EXCEPT
                         !.analysed = Append(@, runs[r].current),
                         !.failed = IF outcome = "ok" THEN @
                                    ELSE @ \cup { runs[r].current } ],
                     RemainingProjects(outcome, runs[r].queue)) ]
  /\ UNCHANGED << analysisVars, reportVars, activeProjects, timerArmed >>
  /\ UNCHANGED otherVars

NextScheduler ==
  \/ Start
  \/ Tick
  \/ \E r \in 1..Len(runs) : QueryProjects(r)
  \/ \E r \in 1..Len(runs) : AnalyzeProjectTasks(r)

SpecScheduler == InitScheduler /\ [][NextScheduler]_vars

(***************************************************************************)
(* FollowUpAgent (src/unnamed/part_002): checkForPendingFollowUps,         *)
(* processFollowUp, escalateToManager                                      *)
(*                                                                         *)
(* A row of followUps is an email of table emails: its follow_up_status    *)
(* ("NULL" for SQL NULL), whether the other conditions of the selection    *)
(* hold (due: requires_follow_up, older than the delay, no reply stored),  *)
(* the number of reminder or escalation mails the agent has sent about it  *)
(* (sent) and the number of times processFollowUp took it (attempts).      *)
(***************************************************************************)
\* lines 59: the statuses the selection accepts
SelectableStatuses == { "NULL", "pending" }

\* lines 132-135 and 186-190: the statuses the agent records
RecordedStatuses ==
  { "first_reminder_sent", "second_reminder_sent", "escalated" }

\* lines 54-68: the WHERE clause for one email
Selected(email) ==
  email.due /\ email.follow_up_status \in SelectableStatuses

\* lines 54-68: the ids of the selected emails, in the order of the result
\* (ids are given in the order of received_date)
RECURSIVE SelectPending(_, _)
SelectPending(emails, k) ==
  IF k = 0 THEN << >>
  ELSE SelectPending(emails, k - 1)
         \o (IF Selected(emails[k]) THEN << k >> ELSE << >>)

\* the awaited steps of processFollowUp / escalateToManager that can be
\* rejected: the count query, the generation of the text, sendMail, the
\* UPDATE; "none" is the call in which all succeed
FailingSteps == { "none", "count", "generate", "send", "update" }

\* line 98-102: followUpCount reaches the threshold of the escalation
Escalates(followUpCount) == followUpCount >= 2

\* lines 128 and 183: a mail has left when sendMail resolved, that is when
\* no earlier step was rejected (the text is generated only for reminders)
MailSent(followUpCount, failing) ==
  /\ failing \notin { "count", "send" }
  /\ (failing = "generate" => Escalates(followUpCount))

\* lines 132-138 and 186-190: the status written by the UPDATE
StatusWritten(followUpCount) ==
  IF Escalates(followUpCount) THEN "escalated"
  ELSE IF followUpCount = 0 THEN "first_reminder_sent"
  ELSE "second_reminder_sent"

\* lines 84-144 and 149-198: the row of the email after processFollowUp
\* (every rejection is caught at 141 or 195)
processFollowUp(email, followUpCount, failing) ==
  [ email EXCEPT
      !.attempts = @ + 1,
      !.sent = IF MailSent(followUpCount, failing) THEN @ + 1 ELSE @,
      !.follow_up_status =
         IF MailSent(followUpCount, failing) /\ failing # "update"
         THEN StatusWritten(followUpCount) ELSE @ ]

\* the emails of the table when the agent starts
InitialEmail ==
  [ follow_up_status : SelectableStatuses \cup { "first_reminder_sent" },
    due : BOOLEAN, sent : { 0 }, attempts : { 0 } ]

InitFollowUp ==
  /\ \E n \in 0..MaxEmails : followUps \in [1..n -> InitialEmail]
  /\ followUpRun = [ pc |-> "idle", queue |-> << >>, runsDone |-> 0 ]
  /\ MailIdle
  /\ SchedulerIdle
  /\ tasksTable = << >>
  /\ pc = "idle"
  /\ rows = << >>
  /\ taskMap = << >>
  /\ dependencyGraph = << >>
  /\ overlaps = << >>
  /\ potentialIssues = << >>
  /\ conflicts = << >>
  /\ projectRows = << >>
  /\ failure = "none"
  /\ report = << >>
  /\ response = 0

\* the run is over when its queue is empty
AfterQueue(run, queue) ==
  IF Len(queue) = 0
  THEN [ pc |-> "idle", queue |-> << >>, runsDone |-> run.runsDone + 1 ]
  ELSE [ pc |-> "loop", queue |-> queue, runsDone |-> run.runsDone ]

\* lines 45-79: a run begins (from start() or from the timer) once the run
\* before it is over; its query resolves, or is rejected and caught at 76
CheckForPendingFollowUps ==
  /\ followUpRun.pc = "idle"
  /\ followUpRun.runsDone < MaxFollowUpRuns
  /\ \E ok \in BOOLEAN :
       followUpRun' =
         AfterQueue(followUpRun,
                    IF ok THEN SelectPending(followUps, Len(followUps)) ELSE << >>)
  /\ UNCHANGED << followUps, analysisVars, reportVars, schedulerVars, mailVars >>

\* lines 73-75: processFollowUp for the next email of the result
ProcessFollowUp ==
  /\ followUpRun.pc = "loop"
  /\ LET id == Head(followUpRun.queue)
     IN  \E followUpCount \in 0..2 : \E failing \in FailingSteps :
           followUps' =
             [ followUps EXCEPT
                 ![id] = processFollowUp(followUps[id], followUpCount, failing) ]
  /\ followUpRun' = AfterQueue(followUpRun, Tail(followUpRun.queue))
  /\ UNCHANGED << analysisVars, reportVars, schedulerVars, mailVars >>

NextFollowUp ==
  \/ CheckForPendingFollowUps
  \/ ProcessFollowUp

SpecFollowUp == InitFollowUp /\ [][NextFollowUp]_vars

(***************************************************************************)
(* EmailProcessor (src/src/email/emailProcessor.js:66-221)                 *)
(*                                                                         *)
(* _fetchNewEmails hands every message of the batch to _parseEmail without *)
(* awaiting it (lines 88-94), so the calls of _processEmail run together   *)
(* and each is suspended at its queries.  A step of a call is the query it *)
(* waits for being executed by the store, followed by the code up to the   *)
(* next query.                                                             *)
(***************************************************************************)
\* a call of _processEmail that waits for the query of line 134
NewCall(messageId) ==
  [ pc |-> "exists", messageId |-> messageId, projectId |-> 0 ]

\* lines 134-137, 175: some row of emails has this message_id
IsStored(messageId) ==
  \E k \in 1..Len(storedEmails) : storedEmails[k].message_id = messageId

\* the tables before the batch: no project or one project made by a user
InitMail ==
  /\ projectsTable \in { << >>, << [ id |-> 1, auto |-> FALSE ] >> }
  /\ storedEmails = << >>
  /\ processing = << >>
  /\ FollowUpIdle
  /\ SchedulerIdle
  /\ tasksTable = << >>
  /\ pc = "idle"
  /\ rows = << >>
  /\ taskMap = << >>
  /\ dependencyGraph = << >>
  /\ overlaps = << >>
  /\ potentialIssues = << >>
  /\ conflicts = << >>
  /\ projectRows = << >>
  /\ failure = "none"
  /\ report = << >>
  /\ response = 0

\* lines 66-104: the unread messages are fetched and a call of
\* _processEmail begins for each; two messages may carry one Message-ID
FetchNewEmails ==
  /\ processing = << >>
  /\ storedEmails = << >>
  /\ \E n \in 1..MaxEmails : \E ids \in [1..n -> 1..MaxEmails] :
       processing' = [ i \in 1..n |-> NewCall(ids[i]) ]
  /\ UNCHANGED << projectsTable, storedEmails,
                  analysisVars, reportVars, schedulerVars, followUpVars >>

\* lines 134-142: the query for a stored email with this message_id
CheckExisting(i) ==
  /\ processing[i].pc = "exists"
  /\ processing' =
       [ processing EXCEPT ![i].pc =
           IF IsStored(processing[i].messageId) THEN "done" ELSE "project" ]
  /\ UNCHANGED << projectsTable, storedEmails,
                  analysisVars, reportVars, schedulerVars, followUpVars >>

\* lines 145-149: SELECT id FROM projects LIMIT 1, any row of the table
SelectProject(i) ==
  /\ processing[i].pc = "project"
  /\ IF Len(projectsTable) = 0
     THEN processing' = [ processing EXCEPT ![i].pc = "create" ]
     ELSE \E k \in 1..Len(projectsTable) :
            processing' = [ processing EXCEPT
                              ![i].pc = "insert",
                              ![i].projectId = projectsTable[k].id ]
  /\ UNCHANGED << projectsTable, storedEmails,
                  analysisVars, reportVars, schedulerVars, followUpVars >>

\* lines 150-157: the INSERT of the default project
CreateProject(i) ==
  /\ processing[i].pc = "create"
  /\ projectsTable' =
       Append(projectsTable, [ id |-> Len(projectsTable) + 1, auto |-> TRUE ])
  /\ processing' = [ processing EXCEPT
                       ![i].pc = "insert",
                       ![i].projectId = Len(projectsTable) + 1 ]
  /\ UNCHANGED << storedEmails,
                  analysisVars, reportVars, schedulerVars, followUpVars >>

\* lines 159-221: after the analysis, the INSERT of the email; message_id
\* is UNIQUE (database/index.js:82), a second row with the same value is
\* refused and the error is caught at line 218
InsertEmail(i) ==
  /\ processing[i].pc = "insert"
  /\ storedEmails' =
       IF IsStored(processing[i].messageId) THEN storedEmails
       ELSE Append(storedEmails,
                   [ message_id |-> processing[i].messageId,
                     project_id |-> processing[i].projectId ])
  /\ processing' = [ processing EXCEPT ![i].pc = "done" ]
  /\ UNCHANGED << projectsTable,
                  analysisVars, reportVars, schedulerVars, followUpVars >>

NextMail ==
  \/ FetchNewEmails
  \/ \E i \in 1..Len(processing) : CheckExisting(i)
  \/ \E i \in 1..Len(processing) : SelectProject(i)
  \/ \E i \in 1..Len(processing) : CreateProject(i)
  \/ \E i \in 1..Len(processing) : InsertEmail(i)

SpecMail == InitMail /\ [][NextMail]_vars

(***************************************************************************)
(* Properties                                                              *)
(***************************************************************************)
\* the run has passed detectTradeOverlaps / detectScheduleConflicts
OverlapsDone ==
  pc \in {"missing", "conflicts"} \/ (pc = "done" /\ Len(rows) > 0)

ConflictsDone == pc = "done" /\ Len(rows) > 0

\* a task with a trade and both planned dates
Scheduled(t) ==
  t.trade_id # NULL /\ t.planned_start_date # NULL /\ t.planned_end_date # NULL

\* a task whose planned range is not inverted
WellFormed(t) == t.planned_start_date <= t.planned_end_date

Later(x, y) == IF x >= y THEN x ELSE y
Earlier(x, y) == IF x <= y THEN x ELSE y

\* some overlap finding pairs the tasks with identities x and y
Reported(x, y) ==
  \E k \in 1..Len(overlaps) :
    {overlaps[k].task1.id, overlaps[k].task2.id} = {x, y}

\* C1: after detectTradeOverlaps, two tasks of different trades, each with
\* a trade and both planned dates, are paired in a finding exactly when
\* t1.planned_start <= t2.planned_end and t1.planned_end >= t2.planned_start;
\* [Jan 1, Jan 4] and [Jan 5, Jan 10] give no finding; a task ending on the
\* day another starts gives one.
C1_OverlapIffRangesIntersect ==
  OverlapsDone =>
    /\ \A a, b \in 1..Len(rows) :
         ( /\ a # b
           /\ Scheduled(rows[a]) /\ Scheduled(rows[b])
           /\ rows[a].trade_id # rows[b].trade_id )
         => ( Reported(rows[a].id, rows[b].id)
              <=> ( /\ rows[a].planned_start_date <= rows[b].planned_end_date
                    /\ rows[a].planned_end_date >= rows[b].planned_start_date ) )
    /\ (tasksTable = DisjointTable => overlaps = << >>)
    /\ \A a, b \in 1..Len(rows) :
         ( /\ a # b
           /\ Scheduled(rows[a]) /\ Scheduled(rows[b])
           /\ rows[a].trade_id # rows[b].trade_id
           /\ WellFormed(rows[a]) /\ WellFormed(rows[b])
           /\ rows[a].planned_end_date = rows[b].planned_start_date )
         => Reported(rows[a].id, rows[b].id)

\* a finding for a task that ends on the day the other starts
C1_Witness ==
  /\ OverlapsDone
  /\ \E k \in 1..Len(overlaps) :
       /\ overlaps[k].task1.planned_end_date = overlaps[k].task2.planned_start_date
       /\ overlaps[k].task1.planned_start_date < overlaps[k].task1.planned_end_date

\* the window of finding k is the intersection of the two planned ranges
WindowIsIntersection(k) ==
  LET t1 == overlaps[k].task1
      t2 == overlaps[k].task2
  IN  /\ overlaps[k].startOverlap =
           Later(t1.planned_start_date, t2.planned_start_date) * MsPerDay
      /\ overlaps[k].endOverlap =
           Earlier(t1.planned_end_date, t2.planned_end_date) * MsPerDay

\* C2 as stated: every finding's window starts at the later planned start,
\* ends at the earlier planned end, and its start is not after its end.
C2_WindowOrdered ==
  OverlapsDone =>
    \A k \in 1..Len(overlaps) :
      /\ WindowIsIntersection(k)
      /\ overlaps[k].startOverlap <= overlaps[k].endOverlap

\* C2 (amended): every finding's window starts at the later planned start
\* and ends at the earlier planned end; its start is not after its end when
\* neither task has its planned end before its planned start.
C2_WindowIsIntersection ==
  OverlapsDone =>
    \A k \in 1..Len(overlaps) :
      /\ WindowIsIntersection(k)
      /\ (WellFormed(overlaps[k].task1) /\ WellFormed(overlaps[k].task2))
           => overlaps[k].startOverlap <= overlaps[k].endOverlap

\* a finding whose two tasks differ in planned start and in planned end
C2_Witness ==
  /\ OverlapsDone
  /\ \E k \in 1..Len(overlaps) :
       /\ WellFormed(overlaps[k].task1) /\ WellFormed(overlaps[k].task2)
       /\ overlaps[k].task1.planned_start_date # overlaps[k].task2.planned_start_date
       /\ overlaps[k].task1.planned_end_date # overlaps[k].task2.planned_end_date

\* C3: the day count of a finding counts the days of the window inclusively:
\* [Jan 1, Jan 5] with [Jan 5, Jan 10] is reported with 1 day, and the
\* window Jan 8 to Jan 10 with 3 days.
C3_InclusiveDayCount ==
  OverlapsDone =>
    /\ tasksTable = BoundaryTable
         => Len(overlaps) = 1 /\ overlaps[1].daysOverlap = 1
    /\ \A k \in 1..Len(overlaps) :
         ( /\ overlaps[k].startOverlap = Jan(8) * MsPerDay
           /\ overlaps[k].endOverlap = Jan(10) * MsPerDay )
         => overlaps[k].daysOverlap = 3

\* the day count of finding k is the number of days from the later planned
\* start to the earlier planned end
CountIsDifference(k) ==
  LET t1 == overlaps[k].task1
      t2 == overlaps[k].task2
  IN  overlaps[k].daysOverlap =
        Earlier(t1.planned_end_date, t2.planned_end_date)
          - Later(t1.planned_start_date, t2.planned_start_date)

\* C4 as stated: every finding's day count is the difference in days between
\* window end and window start, and is never negative.
C4_CountNeverNegative ==
  OverlapsDone =>
    \A k \in 1..Len(overlaps) :
      CountIsDifference(k) /\ overlaps[k].daysOverlap >= 0

\* C4 (amended): every finding's day count is the difference in days between
\* window end and window start; it is not negative when neither task has its
\* planned end before its planned start.
C4_CountIsDifference ==
  OverlapsDone =>
    \A k \in 1..Len(overlaps) :
      /\ CountIsDifference(k)
      /\ (WellFormed(overlaps[k].task1) /\ WellFormed(overlaps[k].task2))
           => overlaps[k].daysOverlap >= 0

\* a finding with a window of more than one calendar day
C4_Witness ==
  /\ OverlapsDone
  /\ \E k \in 1..Len(overlaps) : overlaps[k].daysOverlap > 0

\* the windows of a list of findings
Windows(findings) ==
  { << findings[k].startOverlap, findings[k].endOverlap >> :
      k \in 1..Len(findings) }

\* C5: for a collection [A, B] of two tasks of different trades with full
\* planned ranges, the detector run on [B, A] reports an overlap exactly
\* when the run on [A, B] did, with the same window.
C5_OverlapSymmetric ==
  ( /\ OverlapsDone
    /\ Len(rows) = 2
    /\ Scheduled(rows[1]) /\ Scheduled(rows[2])
    /\ rows[1].trade_id # rows[2].trade_id )
  => LET swapped == detectTradeOverlaps(<< rows[2], rows[1] >>)
     IN  /\ Len(swapped) = Len(overlaps)
         /\ Windows(swapped) = Windows(overlaps)

\* an overlap of two tasks that differ in planned start and planned end
C5_Witness ==
  /\ OverlapsDone
  /\ Len(rows) = 2
  /\ Len(overlaps) = 1
  /\ rows[1].planned_start_date # rows[2].planned_start_date
  /\ rows[1].planned_end_date # rows[2].planned_end_date

\* C6: the analysis of Terrassement [Jan 1, Jan 10], Plomberie [Jan 8,
\* Jan 20], Electricite [Jan 21, Jan 25] (depending on Plomberie) ends with
\* exactly one overlap finding, Terrassement/Plomberie from Jan 8 to Jan 10,
\* and no conflict finding.
C6_Scenario ==
  (tasksTable = ScenarioTable /\ pc = "done") =>
    /\ Len(overlaps) = 1
    /\ {overlaps[1].task1.trade_name, overlaps[1].task2.trade_name}
         = {"Terrassement", "Plomberie"}
    /\ overlaps[1].startOverlap = Jan(8) * MsPerDay
    /\ overlaps[1].endOverlap = Jan(10) * MsPerDay
    /\ conflicts = << >>

\* the analysis of the scenario has run to its end
C6_Witness ==
  /\ tasksTable = ScenarioTable
  /\ pc = "done"
  /\ Len(rows) = 3
  /\ dependencyGraph[2] = << 3 >>

\* C7: no overlap finding contains a task without a trade, without a planned
\* start or without a planned end.
C7_OnlyScheduledTasks ==
  OverlapsDone =>
    \A k \in 1..Len(overlaps) :
      Scheduled(overlaps[k].task1) /\ Scheduled(overlaps[k].task2)

\* findings were produced for a collection that holds a task without a
\* trade and a task without a planned date
C7_Witness ==
  /\ OverlapsDone
  /\ Len(overlaps) > 0
  /\ \E a \in 1..Len(rows) : rows[a].trade_id = NULL
  /\ \E a \in 1..Len(rows) :
       rows[a].planned_start_date = NULL \/ rows[a].planned_end_date = NULL

\* C8: every finding pairs two distinct tasks of two different trades, and
\* no unordered pair of tasks is in two findings.
C8_DistinctTradesOncePerPair ==
  OverlapsDone =>
    /\ \A k \in 1..Len(overlaps) :
         /\ overlaps[k].task1.id # overlaps[k].task2.id
         /\ overlaps[k].task1.trade_id # overlaps[k].task2.trade_id
    /\ \A k, m \in 1..Len(overlaps) :
         k # m => {overlaps[k].task1.id, overlaps[k].task2.id}
                    # {overlaps[m].task1.id, overlaps[m].task2.id}

\* several findings for a collection in which two tasks of one trade have
\* intersecting ranges
C8_Witness ==
  /\ OverlapsDone
  /\ Len(overlaps) > 1
  /\ \E a, b \in 1..Len(rows) :
       /\ a # b
       /\ Scheduled(rows[a]) /\ Scheduled(rows[b])
       /\ rows[a].trade_id = rows[b].trade_id
       /\ rows[a].planned_start_date <= rows[b].planned_end_date
       /\ rows[a].planned_end_date >= rows[b].planned_start_date

\* some conflict finding is about task x and its dependency y
Flagged(x, y) ==
  \E k \in 1..Len(conflicts) :
    conflicts[k].task.id = x /\ conflicts[k].dependency.id = y

\* the declared dependencies of a task, as a set
DeclaredBy(t) == { t.depends_on[k] : k \in 1..Len(t.depends_on) }

\* C9: after detectScheduleConflicts, a conflict is reported for (task,
\* dependency) exactly when the task declares dependencies and has a planned
\* start, the dependency identity is declared by it and is a task of the
\* collection with a planned end, and the task's planned start is strictly
\* before that planned end; a task that starts on the day its dependency
\* ends gives no conflict.
C9_ConflictIffStartsBeforeEnd ==
  ConflictsDone =>
    /\ \A a \in 1..Len(rows) : \A y \in 1..(Len(rows) + 1) :
         Flagged(rows[a].id, y)
         <=> ( /\ DeclaredBy(rows[a]) # {}
               /\ rows[a].planned_start_date # NULL
               /\ y \in DeclaredBy(rows[a])
               /\ \E b \in 1..Len(rows) :
                    /\ rows[b].id = y
                    /\ rows[b].planned_end_date # NULL
                    /\ rows[a].planned_start_date < rows[b].planned_end_date )
    /\ \A k \in 1..Len(conflicts) :
         \E a, b \in 1..Len(rows) :
           conflicts[k].task = rows[a] /\ conflicts[k].dependency = rows[b]
    /\ (tasksTable = SameDayTable => conflicts = << >>)

\* a conflict was reported
C9_Witness == ConflictsDone /\ Len(conflicts) > 0

\* C10: every conflict finding's day count is the number of days from the
\* task's planned start to the dependency's planned end and is at least 1;
\* planned start Jan 10 against planned end Jan 15 gives exactly one
\* conflict, of 5 days; planned start Jan 20 gives none.
C10_ConflictDays ==
  ConflictsDone =>
    /\ \A k \in 1..Len(conflicts) :
         /\ conflicts[k].daysConflict =
              conflicts[k].dependency.planned_end_date
                - conflicts[k].task.planned_start_date
         /\ conflicts[k].daysConflict >= 1
    /\ tasksTable = ConflictTable
         => Len(conflicts) = 1 /\ conflicts[1].daysConflict = 5
    /\ (tasksTable = NoConflictTable => conflicts = << >>)

\* the Jan 10 / Jan 15 project has been analysed
C10_Witness ==
  /\ tasksTable = ConflictTable
  /\ ConflictsDone
  /\ Len(conflicts) = 1

\* the identities of the queried rows
RowIds == { rows[a].id : a \in 1..Len(rows) }

\* task t declares a dependency the conflict check has to skip: an identity
\* of no row, or a row without a planned end
DeclaresSkipped(t) ==
  \E y \in DeclaredBy(t) :
    \/ y \notin RowIds
    \/ \E b \in 1..Len(rows) :
         rows[b].id = y /\ rows[b].planned_end_date = NULL

\* task t starts before the planned end of the row with identity y
StartsBeforeEndOf(t, y) ==
  /\ t.planned_start_date # NULL
  /\ \E b \in 1..Len(rows) :
       /\ rows[b].id = y
       /\ rows[b].planned_end_date # NULL
       /\ t.planned_start_date < rows[b].planned_end_date

\* C11: no conflict finding names a dependency that is no task of the
\* collection or that has no planned end, and when some task declares such a
\* dependency the run still ends with a finding for every other declared
\* dependency, of that task and of the other tasks, that ends after the
\* dependent task starts.
C11_SkippedDependencies ==
  ConflictsDone =>
    /\ \A k \in 1..Len(conflicts) :
         /\ conflicts[k].dependency.id \in RowIds
         /\ conflicts[k].dependency.planned_end_date # NULL
    /\ (\E a \in 1..Len(rows) : DeclaresSkipped(rows[a]))
         => \A b \in 1..Len(rows) : \A z \in DeclaredBy(rows[b]) :
              StartsBeforeEndOf(rows[b], z) => Flagged(rows[b].id, z)

\* the run ended with conflicts for a task that also declares a dangling
\* dependency and a dependency without planned end, and for a later task
C11_Witness ==
  /\ ConflictsDone
  /\ \E a, b \in 1..Len(rows) :
       /\ a # b
       /\ \E y \in DeclaredBy(rows[a]) : y \notin RowIds
       /\ \E y \in DeclaredBy(rows[a]) : \E c \in 1..Len(rows) :
            rows[c].id = y /\ rows[c].planned_end_date = NULL
       /\ \E z \in DeclaredBy(rows[a]) : Flagged(rows[a].id, z)
       /\ \E z \in DeclaredBy(rows[b]) : Flagged(rows[b].id, z)

\* the run has built the dependency graph
GraphDone ==
  pc \in {"overlaps", "missing", "conflicts"} \/ (pc = "done" /\ Len(rows) > 0)

\* C12: the dependency graph has one entry per task of the collection; for
\* tasks d and t, t's identity is in the list of d exactly when d's identity
\* is declared by t; identities of no task get no entry and appear in no
\* list.
C12_GraphIsReverseOfDeclared ==
  GraphDone =>
    /\ DOMAIN dependencyGraph = RowIds
    /\ \A d, t \in 1..Len(rows) :
         (\E k \in 1..Len(dependencyGraph[rows[d].id]) :
            dependencyGraph[rows[d].id][k] = rows[t].id)
         <=> rows[d].id \in DeclaredBy(rows[t])
    /\ \A id \in DOMAIN dependencyGraph :
         \A k \in 1..Len(dependencyGraph[id]) : dependencyGraph[id][k] \in RowIds

\* a graph with an edge, built from a collection with a dangling dependency
C12_Witness ==
  /\ GraphDone
  /\ \E a \in 1..Len(rows) : \E y \in DeclaredBy(rows[a]) : y \notin RowIds
  /\ \E d, t \in 1..Len(rows) :
       /\ d # t
       /\ \E k \in 1..Len(dependencyGraph[rows[d].id]) :
            dependencyGraph[rows[d].id][k] = rows[t].id

\* the run has passed detectMissingDependencies
MissingDone == pc = "conflicts" \/ (pc = "done" /\ Len(rows) > 0)

\* the identities listed as candidate predecessors in the finding whose
\* subject has identity x
ReportedCandidates(x) ==
  UNION { { potentialIssues[k].potentialDependencies[c].task.id :
              c \in 1..Len(potentialIssues[k].potentialDependencies) } :
          k \in { m \in 1..Len(potentialIssues) : potentialIssues[m].task.id = x } }

\* the identities the scan of lines 199-217 collects for sortedTasks[i]
CollectedCandidates(sortedTasks, i) ==
  LET found == PotentialDependencies(sortedTasks, i)
  IN  { found[c].task.id : c \in 1..Len(found) }

\* P ends between 0 and 5 days before T starts and T does not declare P
InWindowUndeclared(T, P) ==
  /\ T.planned_start_date - P.planned_end_date >= 0
  /\ T.planned_start_date - P.planned_end_date <= 5
  /\ P.id \notin DeclaredBy(T)

C14_SubjectsOfFindings ==
  MissingDone =>
    \A k \in 1..Len(potentialIssues) :
      /\ potentialIssues[k].task.planned_start_date # NULL
      /\ Len(potentialIssues[k].task.depends_on) = 0
      /\ Len(potentialIssues[k].potentialDependencies) >= 1
      /\ \E a \in 1..Len(rows) : rows[a] = potentialIssues[k].task

\* a finding was produced while a task with a declared dependency has an
\* undeclared close predecessor of its own
C14_Witness ==
  /\ MissingDone
  /\ Len(potentialIssues) > 0
  /\ \E i \in 1..Len(rows) :
       /\ Len(rows[i].depends_on) > 0
       /\ rows[i].planned_start_date # NULL
       /\ CollectedCandidates(SortTasks(rows), i) # {}

\* C15: a task without planned start is never the subject of a finding, and
\* when it has a planned end 0 to 5 days before the planned start of a
\* task without declared dependencies it is reported as a candidate of that
\* task.
C15_UnstartedPredecessor ==
  MissingDone =>
    /\ \A k \in 1..Len(potentialIssues) :
         potentialIssues[k].task.planned_start_date # NULL
    /\ \A p, t \in 1..Len(rows) :
         ( /\ rows[p].planned_start_date = NULL
           /\ rows[p].planned_end_date # NULL
           /\ rows[t].planned_start_date # NULL
           /\ Len(rows[t].depends_on) = 0
           /\ InWindowUndeclared(rows[t], rows[p]) )
         => rows[p].id \in ReportedCandidates(rows[t].id)

\* generateCoordinationReport has returned a report
ReportReturned == pc \in { "respond", "responded" } /\ Len(report) = 1

\* the sum of the four status counts of a report
SumOfCounts(r) ==
  r.completedTasks + r.inProgressTasks + r.plannedTasks + r.delayedTasks

\* the count a report gives for a status
StatusCount(r, status) ==
  CASE status = "completed" -> r.completedTasks
    [] status = "in_progress" -> r.inProgressTasks
    [] status = "planned" -> r.plannedTasks
    [] status = "delayed" -> r.delayedTasks

\* C17: in a returned report over tasks whose statuses all lie in
\* {planned, in_progress, completed, delayed}, totalTasks is the number of
\* tasks of the project and the sum of the four counts, and each count is
\* the number of tasks with that status.
C17_TotalIsSumOfCounts ==
  ( /\ ReportReturned
    /\ \A k \in 1..Len(rows) : rows[k].status \in ClosedStatuses )
  => /\ report[1].totalTasks = Len(tasksTable)
     /\ report[1].totalTasks = SumOfCounts(report[1])
     /\ \A status \in ClosedStatuses :
          StatusCount(report[1], status)
            = Cardinality({ k \in 1..Len(tasksTable) :
                              tasksTable[k].status = status })

\* a report over two delayed tasks was returned
C17_Witness ==
  /\ ReportReturned
  /\ Len(rows) = 2
  /\ rows[1].status = "delayed"
  /\ rows[2].status = "delayed"

\* C18: in every returned report totalTasks equals the sum of the status
\* counts the report exposes, whatever statuses the stored tasks have.
C18_TotalIsSumOfExposedCounts ==
  ReportReturned => report[1].totalTasks = SumOfCounts(report[1])

\* the entries of tasksByTrade as <<group, position>>
GroupEntries(tasksByTrade) ==
  UNION { { << key, m >> : m \in 1..Len(tasksByTrade[key]) } :
          key \in DOMAIN tasksByTrade }

C20_AbsenceDistinctFromError ==
  pc \in { "respond", "responded" } =>
    /\ (Len(projectRows) = 0 /\ failure = "none") => report = NoReport
    /\ failure # "none"
         => report # generateCoordinationReport(<< >>, << >>, "none")

\* C21: for an existing project without tasks generateCoordinationReport
\* returns a report with totalTasks 0, the four counts 0 and an empty
\* tasksByTrade, and analyzeProjectTasks ends after its query without any
\* finding.
C21_EmptyProjectSucceeds ==
  /\ ( /\ pc \in { "respond", "responded" }
       /\ Len(projectRows) = 1
       /\ Len(tasksTable) = 0
       /\ failure = "none" )
     => /\ Len(report) = 1
        /\ report[1].totalTasks = 0
        /\ SumOfCounts(report[1]) = 0
        /\ \A status \in ClosedStatuses : StatusCount(report[1], status) = 0
        /\ DOMAIN report[1].tasksByTrade = {}
        /\ (pc = "responded" => response = Ok)
  /\ ( /\ Len(tasksTable) = 0
       /\ pc \in { "query", "graph", "overlaps", "missing", "conflicts", "done" } )
     => /\ pc \in { "query", "done" }
        /\ overlaps = << >>
        /\ potentialIssues = << >>
        /\ conflicts = << >>
        /\ dependencyGraph = << >>

\* the report of an existing project without tasks has been answered
C21_Witness ==
  /\ pc = "responded"
  /\ Len(projectRows) = 1
  /\ Len(tasksTable) = 0
  /\ failure = "none"
  /\ response = Ok

\* analyzeProjectTasks is in flight for project p in run r
InFlight(r, p) == runs[r].pc = "tasks" /\ runs[r].current = p

\* C23: at any time at most one analyzeProjectTasks run of a project is in
\* flight, also when the timer fires before the earlier run has ended.
C23_OneRunInFlight ==
  \A r1, r2 \in 1..Len(runs) : \A p \in 1..MaxProjects :
    (InFlight(r1, p) /\ InFlight(r2, p)) => r1 = r2

\* C28: a run whose project query resolved has called analyzeProjectTasks
\* for the projects in query order, whatever calls failed, and when it has
\* ended it has analysed them all; a run whose project query was rejected
\* has ended without analysing anything; the timer stays armed and fires
\* again.
C28_FailureConfined ==
  /\ \A r \in 1..Len(runs) :
       /\ runs[r].queryFailed => runs[r].pc = "done" /\ runs[r].analysed = << >>
       /\ (runs[r].pc # "projects" /\ ~runs[r].queryFailed)
            => ( runs[r].analysed
                   \o (IF runs[r].pc = "tasks" THEN << runs[r].current >> ELSE << >>)
                   \o runs[r].queue ) = activeProjects
       /\ runs[r].pc = "done" => runs[r].queue = << >>
       /\ runs[r].failed \subseteq { runs[r].analysed[k] : k \in 1..Len(runs[r].analysed) }
  /\ Len(runs) > 0 => timerArmed
  /\ (Len(runs) > 0 /\ Len(runs) < MaxRuns) => ENABLED Tick

\* a run has ended after the analysis of its first project failed and the
\* analysis of a later one did not, and a run whose project query was
\* rejected has been followed by another run
C28_Witness ==
  /\ \E r \in 1..Len(runs) :
       /\ runs[r].pc = "done"
       /\ Len(runs[r].analysed) = 2
       /\ runs[r].failed = { runs[r].analysed[1] }
  /\ \E r \in 1..Len(runs) :
       /\ runs[r].queryFailed
       /\ r < Len(runs)

\* C24: from the end of the task query on, no step of the run (graph
\* construction, detectTradeOverlaps, detectMissingDependencies,
\* detectScheduleConflicts) changes the task collection: same elements,
\* same order, same fields, depends_on included; the stored table is not
\* written either.
C24_InputUntouched ==
  [][pc # "query" => (rows' = rows /\ tasksTable' = tasksTable)]_vars

\* the graph of a project with a declared dependency inside the project has
\* been built and the detectors have run
C24_Witness ==
  /\ pc = "done"
  /\ \E id \in DOMAIN dependencyGraph : Len(dependencyGraph[id]) > 0
  /\ Len(potentialIssues) + Len(conflicts) > 0

\* the declared edges <<a, k>> (position k of depends_on of rows[a]) whose
\* task has a planned start before the planned end of the row the edge
\* names
ConflictingEdges ==
  { e \in (1..Len(rows)) \X (1..(MaxDeps + 3)) :
      /\ e[2] <= Len(rows[e[1]].depends_on)
      /\ StartsBeforeEndOf(rows[e[1]], rows[e[1]].depends_on[e[2]]) }

\* what a conflicting edge reports: task, dependency, days of conflict
EdgeFinding(e) ==
  LET t == rows[e[1]]
      d == CHOOSE x \in { rows[b] : b \in 1..Len(rows) } :
             x.id = t.depends_on[e[2]]
  IN  << t.id, d.id, d.planned_end_date - t.planned_start_date >>

\* C25: on a cyclic dependency set the graph is built and
\* detectScheduleConflicts ends with one finding per declared edge (t, d)
\* with t.planned_start before d.planned_end, decided from these two dates
\* alone, and no other finding; for two tasks that depend on each other
\* both edges are reported.
C25_CyclesEvaluatedPerEdge ==
  (ConflictsDone /\ CyclicTasks(rows) # {}) =>
    /\ DOMAIN dependencyGraph = RowIds
    /\ { << conflicts[k].task.id, conflicts[k].dependency.id,
            conflicts[k].daysConflict >> : k \in 1..Len(conflicts) }
         = { EdgeFinding(e) : e \in ConflictingEdges }
    /\ Len(conflicts) = Cardinality(ConflictingEdges)
    /\ tasksTable = CycleTable
         => /\ Len(conflicts) = 3
            /\ Flagged(1, 2) /\ Flagged(2, 1) /\ Flagged(3, 3)

\* the project with two mutually dependent tasks has been analysed
C25_Witness ==
  /\ ConflictsDone
  /\ tasksTable = CycleTable
  /\ CyclicTasks(rows) = { 1, 2, 3 }
  /\ Len(conflicts) = 3

\* the findings of a potentialIssues array as a set of
\* <<subject, set of candidate predecessors>>
FindingSet(issues) ==
  { << issues[k].task.id,
       { issues[k].potentialDependencies[c].task.id :
           c \in 1..Len(issues[k].potentialDependencies) } >> :
    k \in 1..Len(issues) }

\* the task collection in every order
Orderings(tasks) ==
  LET n == Len(tasks)
  IN  { [ k \in 1..n |-> tasks[q[k]] ] :
          q \in { f \in [1..n -> 1..n] : \A i, j \in 1..n : i # j => f[i] # f[j] } }

\* C26: detectMissingDependencies gives the same set of findings (subject
\* and set of candidates) for every order of the task collection.
C26_OrderIndependent ==
  MissingDone =>
    \A tasks \in Orderings(rows) :
      FindingSet(detectMissingDependencies(tasks)) = FindingSet(potentialIssues)

\* C27: within a run no task is the subject of a Missing Dependency finding
\* and the task of a Dependency Conflict finding, and no task is a
\* candidate predecessor of itself.
C27_FindingsDisjoint ==
  ConflictsDone =>
    /\ \A k \in 1..Len(potentialIssues) : \A m \in 1..Len(conflicts) :
         potentialIssues[k].task.id # conflicts[m].task.id
    /\ \A k \in 1..Len(potentialIssues) :
         \A c \in 1..Len(potentialIssues[k].potentialDependencies) :
           potentialIssues[k].potentialDependencies[c].task.id
             # potentialIssues[k].task.id

\* a run has produced a Missing Dependency finding and a Dependency
\* Conflict finding, and the task of the conflict has a close predecessor
\* it does not declare
C27_Witness ==
  /\ ConflictsDone
  /\ Len(potentialIssues) > 0
  /\ \E m \in 1..Len(conflicts) : \E i \in 1..Len(rows) :
       /\ SortTasks(rows)[i].id = conflicts[m].task.id
       /\ CollectedCandidates(SortTasks(rows), i) # {}

\* C29: the agent sends at most one reminder or escalation about an
\* email; an email whose follow_up_status is first_reminder_sent,
\* second_reminder_sent or escalated is in no result of the selection; and
\* an email that was processed without a mail being sent keeps a status
\* the next selection accepts.
C29_AtMostOneFollowUp ==
  /\ \A id \in DOMAIN followUps : followUps[id].sent <= 1
  /\ \A k \in 1..Len(followUpRun.queue) :
       followUps[followUpRun.queue[k]].follow_up_status \notin RecordedStatuses
  /\ \A id \in DOMAIN followUps :
       (followUps[id].attempts > 0 /\ followUps[id].sent = 0)
         => Selected(followUps[id])

\* every call of _processEmail of the batch has returned
BatchDone ==
  /\ Len(processing) > 0
  /\ \A i \in 1..Len(processing) : processing[i].pc = "done"

\* C30: no message_id is stored twice, and when the batch was processed
\* while no project existed, exactly one default project has been created
\* and every email of the batch is stored against it.
C30_OneDefaultProject ==
  /\ \A a, b \in 1..Len(storedEmails) :
       storedEmails[a].message_id = storedEmails[b].message_id => a = b
  /\ ( /\ BatchDone
       /\ \A k \in 1..Len(projectsTable) : projectsTable[k].auto )
     => /\ Len(projectsTable) = 1
        /\ \A i \in 1..Len(processing) :
             \E k \in 1..Len(storedEmails) :
               /\ storedEmails[k].message_id = processing[i].messageId
               /\ storedEmails[k].project_id = projectsTable[1].id

====
